---- MODULE Spec2Model ----
(***************************************************************************)
(* Document_OCR: the audit-logged document store of document_manager.py    *)
(* (DocumentManager) and the OCR pipeline of Pytesseract.py (OCRApp).      *)
(*                                                                         *)
(* Text is a sequence of one-character strings.  A timestamp is the value  *)
(* datetime.now() returns: naive local wall-clock time, which the          *)
(* environment may move in either direction between two reads, so every    *)
(* read is an input of the handler that makes it.                          *)
(*                                                                         *)
(* The store keeps two copies of each table: the connection's view (docs,  *)
(* audit), which every SELECT of the program reads, and the committed      *)
(* content of documents.db (diskDocs, diskAudit), which conn.commit()      *)
(* overwrites with the view.  The program never rolls back.                *)
(*                                                                         *)
(* Tk runs one handler at a time, so each handler is one action.  Modal    *)
(* message boxes are not state.  Open edit dialogs are kept as the set of  *)
(* the ids they were opened for: two dialogs on one id behave alike.       *)
(*                                                                         *)
(* The two programs are separate processes.  Spec and its variants run     *)
(* DocumentManager and leave OCRApp's variables idle; SpecOCR runs OCRApp  *)
(* on one dropped image; SpecExtract applies parse_document_info, which no *)
(* handler calls, to one text.                                             *)
(***************************************************************************)
EXTENDS Integers, Sequences, FiniteSets, TLC

\* ------------------------------------------------------------------ bounds
MaxDocs == 2
MaxAudit == 3
MaxClock == 1
MaxFaults == 1
MaxTextLen == 5      \* OCR output over NoiseAlphabet: at most this long
MaxShortLen == 3     \* OCR output over FullAlphabet: at most this long
MaxLines == 3        \* OCR output made of SampleLines: at most this many
MaxTokens == 3       \* text given to parse_document_info: at most this many Tokens

Times == 0..MaxClock
DocIds == 1..MaxDocs
NoId == 0

\* ------------------------------------------------------------------- texts
EmptyText == << >>

\* "ID CARD\nNAME JANE DOE\nNO AB123456"
IdCardText ==
    <<"I","D"," ","C","A","R","D","\n",
      "N","A","M","E"," ","J","A","N","E"," ","D","O","E","\n",
      "N","O"," ","A","B","1","2","3","4","5","6">>

\* What the user leaves in the edit dialog's text area (Tk appends "\n").
TypedNewText == <<" ","n","e","w"," ","t","e","x","t","\n">>
TypedBlank == <<" ","\n">>
EditInputs == {TypedNewText, TypedBlank}

\* An image is what the external OCR stack does with it: the stage that
\* raises ("none" when no stage does) and the text render() returns.
Images ==
    { [stage |-> "none", text |-> IdCardText],
      [stage |-> "none", text |-> EmptyText],
      [stage |-> "load", text |-> EmptyText] }

VARIABLES
    docs,            \* documents table as the connection sees it: id -> row
    audit,           \* audit_log table as the connection sees it: sequence of rows
    diskDocs,        \* documents table as committed to documents.db
    diskAudit,       \* audit_log table as committed to documents.db
    doc_changes,     \* rows of documents written so far: the sum of
                     \* cursor.rowcount over its INSERT, UPDATE and DELETE
    documents_tree,  \* ids listed in the Documents tab (set by load_documents)
    dialogs,         \* doc_id of every open edit dialog
    save_btns,       \* extracted_text captured by every "Save Document" button
    result_text,     \* content of the scan tab's result text area
    faults,          \* SQL statements that have raised so far (environment)
    search_tree,     \* rows of the Search tab's result tree
    search_status,   \* how the last on_search_change ended
    image_path,      \* OCRApp: the image the user drops next (NoImage: none)
    ocr_result_text, \* OCRApp: content of self.result_text
    extracted_text,  \* OCRApp: what extract_text returned to process_image
    errors_shown,    \* OCRApp: the messagebox.showerror texts, in order
    parse_text,      \* the text parse_document_info is applied to
    parse_info       \* the record parse_document_info returned

storeVars == <<docs, audit, diskDocs, diskAudit, doc_changes>>
searchVars == <<search_tree, search_status>>
ocrVars == <<image_path, ocr_result_text, extracted_text, errors_shown>>
extractVars == <<parse_text, parse_info>>
vars == <<docs, audit, diskDocs, diskAudit, doc_changes, documents_tree, dialogs,
          save_btns, result_text, faults, searchVars, ocrVars, extractVars>>

Count(b) == IF b THEN 1 ELSE 0

\* The environment makes nb more statements raise.
Raise(nb) ==
    /\ faults + nb <= MaxFaults
    /\ faults' = faults + nb


\* ------------------------------------------------------------ str helpers
Whitespace == {" ", "\n", "\t"}

RECURSIVE lstrip(_)
lstrip(s) ==
    IF s # << >> /\ Head(s) \in Whitespace THEN lstrip(Tail(s)) ELSE s

RECURSIVE rstrip(_)
rstrip(s) ==
    IF s # << >> /\ s[Len(s)] \in Whitespace
    THEN rstrip(SubSeq(s, 1, Len(s) - 1))
    ELSE s

strip(s) == rstrip(lstrip(s))

\* ------------------------------------------------- Pytesseract.py: cleaner
UpperSeq ==
    <<"A","B","C","D","E","F","G","H","I","J","K","L","M",
      "N","O","P","Q","R","S","T","U","V","W","X","Y","Z">>
LowerSeq ==
    <<"a","b","c","d","e","f","g","h","i","j","k","l","m",
      "n","o","p","q","r","s","t","u","v","w","x","y","z">>
UpperChars == {UpperSeq[i] : i \in 1..Len(UpperSeq)}
LowerChars == {LowerSeq[i] : i \in 1..Len(LowerSeq)}
DigitChars == {"0","1","2","3","4","5","6","7","8","9"}

\* c.isalnum()
isalnum(c) == c \in UpperChars \cup LowerChars \cup DigitChars

\* s.split(sep) for a one-character separator
RECURSIVE split_on(_, _)
split_on(s, sep) ==
    IF \A i \in 1..Len(s) : s[i] # sep THEN <<s>>
    ELSE LET i == CHOOSE k \in 1..Len(s) :
                     s[k] = sep /\ \A j \in 1..(k - 1) : s[j] # sep
         IN  <<SubSeq(s, 1, i - 1)>> \o split_on(SubSeq(s, i + 1, Len(s)), sep)

\* s.split(): the words between runs of whitespace
RECURSIVE split_words(_)
split_words(s) ==
    LET t == lstrip(s)
    IN  IF t = << >> THEN << >>
        ELSE LET ends == {k \in 1..Len(t) : t[k] \in Whitespace}
                 n == IF ends = {} THEN Len(t)
                      ELSE (CHOOSE k \in ends : \A j \in ends : k <= j) - 1
             IN  <<SubSeq(t, 1, n)>> \o split_words(SubSeq(t, n + 1, Len(t)))

\* sep.join(parts)
RECURSIVE join(_, _)
join(sep, parts) ==
    IF parts = << >> THEN << >>
    ELSE IF Len(parts) = 1 THEN parts[1]
    ELSE parts[1] \o sep \o join(sep, Tail(parts))

\* fix_common_errors with '{' replaced by '[' instead of '('
fix_common_errors_BraceToBracket(text) ==
    [i \in 1..Len(text) |->
        CASE text[i] = "|" -> "I"
          [] text[i] = "[" -> "I"
          [] text[i] = "]" -> "I"
          [] text[i] = "{" -> "["
          [] text[i] = "}" -> ")"
          [] OTHER -> text[i]]

\* OCRApp.fix_common_errors: the replacements of common_fixes, in the
\* dict's order; no replacement produces a character a later one replaces
fix_common_errors(text) ==
    [i \in 1..Len(text) |->
        CASE text[i] = "|" -> "I"
          [] text[i] = "[" -> "I"
          [] text[i] = "]" -> "I"
          [] text[i] = "{" -> "("
          [] text[i] = "}" -> ")"
          [] OTHER -> text[i]]

\* clean_line keeping lines of length 2 (len(line) >= 2)
clean_line_KeepsShortLines(raw) ==
    LET line1 == strip(raw)
        line2 == join(<<" ">>, split_words(line1))
        line3 == fix_common_errors(line2)
    IN  IF line1 = << >> THEN << >>
        ELSE IF Len(line3) >= 2 /\ \E i \in 1..Len(line3) : isalnum(line3[i])
        THEN line3
        ELSE << >>

\* one pass of the for loop of post_process_text: the cleaned line, or
\* << >> when the line is dropped
clean_line(raw) ==
    LET line1 == strip(raw)
        line2 == join(<<" ">>, split_words(line1))
        line3 == fix_common_errors(line2)
    IN  IF line1 = << >> THEN << >>
        ELSE IF Len(line3) > 2 /\ \E i \in 1..Len(line3) : isalnum(line3[i])
        THEN line3
        ELSE << >>

RECURSIVE cleaned_lines(_)
cleaned_lines(lines) ==
    IF lines = << >> THEN << >>
    ELSE LET line == clean_line(Head(lines))
         IN  (IF line = << >> THEN << >> ELSE <<line>>) \o cleaned_lines(Tail(lines))

\* OCRApp.post_process_text
post_process_text(text) ==
    join(<<"\n">>, cleaned_lines(split_on(text, "\n")))

\* ------------------------------------- document_manager.py: field extractor
IndexIn(seq, c) == CHOOSE i \in 1..Len(seq) : seq[i] = c

\* text.upper()
upper(text) ==
    [i \in 1..Len(text) |->
        IF text[i] \in LowerChars THEN UpperSeq[IndexIn(LowerSeq, text[i])]
        ELSE text[i]]

\* s.title(): a letter keeps (takes) upper case after a non-letter and
\* takes lower case after a letter
title(s) ==
    [i \in 1..Len(s) |->
        LET cased(c) == c \in UpperChars \cup LowerChars
            first == i = 1 \/ ~cased(s[i - 1])
        IN  IF ~cased(s[i]) THEN s[i]
            ELSE IF first
            THEN (IF s[i] \in LowerChars THEN UpperSeq[IndexIn(LowerSeq, s[i])] ELSE s[i])
            ELSE (IF s[i] \in UpperChars THEN LowerSeq[IndexIn(UpperSeq, s[i])] ELSE s[i])]

\* literal lit occurs in s at position i
StartsWith(s, i, lit) ==
    /\ i + Len(lit) - 1 <= Len(s)
    /\ \A k \in 1..Len(lit) : s[i + k - 1] = lit[k]

\* lit in s
Contains(s, lit) == \E i \in 1..(Len(s) + 1) : StartsWith(s, i, lit)

\* length of the longest run of characters of class that starts at i
RECURSIVE RunLen(_, _, _)
RunLen(s, i, class) ==
    IF i <= Len(s) /\ s[i] \in class THEN 1 + RunLen(s, i + 1, class) ELSE 0

Least(S) == CHOOSE x \in S : \A y \in S : x <= y
Greatest(S) == CHOOSE x \in S : \A y \in S : y <= x

NoMatch == [found |-> FALSE, group |-> << >>]

LabelSep == {".", ":", "#", " "}          \* [.:# ]
NumberChars == UpperChars \cup DigitChars \cup {"-"}   \* [A-Z0-9-]
NameChars == UpperChars \cup {" "}        \* [A-Z ]
DateSep == {"-", "/"}                     \* [-/]

\* ------------------------------------- texts given to parse_document_info
\* pieces of document text: labels with their separators, values that fit
\* and do not fit the value patterns, a line break, document types, noise:
\* "NAME: ", "NO ", "ID#", "DOB ", "EXP:", "ISSUED ", "AB1234", "AB12",
\* "John Smith", "01-02-1990", "1/2/90", "1-2-3", "\n", "ID CARD",
\* "passport", "x"
Tokens ==
    { <<"N","A","M","E",":"," ">>,
      <<"N","O"," ">>,
      <<"I","D","#">>,
      <<"D","O","B"," ">>,
      <<"E","X","P",":">>,
      <<"I","S","S","U","E","D"," ">>,
      <<"A","B","1","2","3","4">>,
      <<"A","B","1","2">>,
      <<"J","o","h","n"," ","S","m","i","t","h">>,
      <<"0","1","-","0","2","-","1","9","9","0">>,
      <<"1","/","2","/","9","0">>,
      <<"1","-","2","-","3">>,
      <<"\n">>,
      <<"I","D"," ","C","A","R","D">>,
      <<"p","a","s","s","p","o","r","t">>,
      <<"x">> }

RECURSIVE concat(_)
concat(parts) == IF parts = << >> THEN << >> ELSE Head(parts) \o concat(Tail(parts))

\* "NAME: JOHN SMITH\nDOB 01-02-1990"
NameDobText ==
    <<"N","A","M","E",":"," ","J","O","H","N"," ","S","M","I","T","H","\n",
      "D","O","B"," ","0","1","-","0","2","-","1","9","9","0">>

ParseTexts ==
    {concat(ts) : ts \in UNION {[1..k -> Tokens] : k \in 0..MaxTokens}}
        \cup {IdCardText, NameDobText}

\* NumberEnd without the lower bound of {6,}
NumberEnd_AnyLength(s, i) ==
    IF RunLen(s, i, NumberChars) >= 1 THEN i + RunLen(s, i, NumberChars) ELSE 0

\* Each value pattern gives the position after its greedy match from i, or 0.
\* ([A-Z0-9-]{6,})
NumberEnd(s, i) ==
    IF RunLen(s, i, NumberChars) >= 6 THEN i + RunLen(s, i, NumberChars) ELSE 0

\* ([A-Z ]+)
NameEnd(s, i) ==
    IF RunLen(s, i, NameChars) >= 1 THEN i + RunLen(s, i, NameChars) ELSE 0

\* (\d{1,2}[-/]\d{1,2}[-/]\d{2,4})
DateEnd(s, i) ==
    LET part(j) ==      \* \d{1,2}[-/] from j: the position after it, or 0
            LET ns == {n \in 1..2 : /\ RunLen(s, j, DigitChars) >= n
                                    /\ j + n <= Len(s)
                                    /\ s[j + n] \in DateSep}
            IN  IF ns = {} THEN 0 ELSE j + Greatest(ns) + 1
        p1 == part(i)
        p2 == IF p1 = 0 THEN 0 ELSE part(p1)
        n3 == IF p2 = 0 THEN 0 ELSE RunLen(s, p2, DigitChars)
    IN  IF p2 # 0 /\ n3 >= 2 THEN p2 + (IF n3 > 4 THEN 4 ELSE n3) ELSE 0

\* the value pattern of a field
ValueEnd(value, s, i) ==
    CASE value = "number" -> NumberEnd(s, i)
      [] value = "name" -> NameEnd(s, i)
      [] value = "date" -> DateEnd(s, i)

\* [.:# ]*(value) from j: the separator run is greedy and gives characters
\* back one at a time until the value matches
AfterLabel(s, j, value) ==
    LET ks == {k \in 0..RunLen(s, j, LabelSep) : ValueEnd(value, s, j + k) # 0}
    IN  IF ks = {} THEN NoMatch
        ELSE [found |-> TRUE,
              group |-> SubSeq(s, j + Greatest(ks), ValueEnd(value, s, j + Greatest(ks)) - 1)]

\* (?:l1|l2|...) at i, alternatives tried in order
MatchAt(s, i, labels, value) ==
    LET ok == {n \in 1..Len(labels) :
                  /\ StartsWith(s, i, labels[n])
                  /\ AfterLabel(s, i + Len(labels[n]), value).found}
    IN  IF ok = {} THEN NoMatch
        ELSE AfterLabel(s, i + Len(labels[Least(ok)]), value)

\* re.search(r'(?:l1|l2|...)[.:# ]*(value)', s): the leftmost match
re_search(s, labels, value) ==
    LET starts == {i \in 1..Len(s) : MatchAt(s, i, labels, value).found}
    IN  IF starts = {} THEN NoMatch
        ELSE MatchAt(s, Least(starts), labels, value)

DocTypes ==
    << <<"P","A","S","S","P","O","R","T">>,
       <<"D","R","I","V","E","R"," ","L","I","C","E","N","S","E">>,
       <<"I","D"," ","C","A","R","D">> >>
NumberLabels == << <<"I","D">>, <<"D","L">>, <<"N","O">>, <<"N","U","M","B","E","R">> >>
NameLabels == << <<"N","A","M","E">> >>
DobLabels == << <<"D","O","B">>, <<"B","I","R","T","H">> >>
ExpLabels == << <<"E","X","P">>, <<"E","X","P","I","R","E","S">> >>
IssLabels == << <<"I","S","S">>, <<"I","S","S","U","E","D">> >>

\* m.group(1) of a match, '' (the field's initial value) without one
group1(m) == IF m.found THEN m.group ELSE << >>

\* the for loop over doc_types: the first of them text_upper contains
first_doc_type(text_upper) ==
    LET types == {n \in 1..Len(DocTypes) : Contains(text_upper, DocTypes[n])}
    IN  IF types = {} THEN << >> ELSE DocTypes[Least(types)]

\* the searches of parse_document_info on text_upper; ''.title() is ''
search_fields(text_upper) ==
    [doc_type |-> first_doc_type(text_upper),
     doc_number |-> group1(re_search(text_upper, NumberLabels, "number")),
     full_name |-> title(group1(re_search(text_upper, NameLabels, "name"))),
     date_of_birth |-> group1(re_search(text_upper, DobLabels, "date")),
     expiry_date |-> group1(re_search(text_upper, ExpLabels, "date")),
     issue_date |-> group1(re_search(text_upper, IssLabels, "date")),
     metadata |-> << >>]        \* {}: no key is ever added

\* DocumentManager.parse_document_info
parse_document_info(text) == search_fields(upper(text))

\* ------------------------------------------------------------------ store
CurrentStore ==
    [docs |-> docs, audit |-> audit, diskDocs |-> diskDocs, diskAudit |-> diskAudit,
     doc_changes |-> doc_changes]

SetStore(st) ==
    /\ docs' = st.docs
    /\ audit' = st.audit
    /\ diskDocs' = st.diskDocs
    /\ diskAudit' = st.diskAudit
    /\ doc_changes' = st.doc_changes

\* self.conn.commit()
commit(st) == [st EXCEPT !.diskDocs = st.docs, !.diskAudit = st.audit]

\* SELECT COALESCE(MAX(id), 0) FROM documents
MaxId(d) ==
    IF DOMAIN d = {} THEN 0
    ELSE CHOOSE m \in DOMAIN d : \A k \in DOMAIN d : k <= m

\* InsertDocument with last_modified left at the epoch instead of now
InsertDocument_EpochModified(st, next_id, raw_text, now) ==
    [st EXCEPT
       !.docs = @ @@ (next_id :>
                        [id |-> next_id,
                         raw_text |-> raw_text,
                         date_added |-> now,
                         last_modified |-> 0,
                         verification_status |-> "PENDING"]),
       !.doc_changes = @ + 1]

\* INSERT INTO documents (...) VALUES (next_id, raw_text, now, now, 'PENDING')
InsertDocument(st, next_id, raw_text, now) ==
    [st EXCEPT
       !.docs = @ @@ (next_id :>
                        [id |-> next_id,
                         raw_text |-> raw_text,
                         date_added |-> now,
                         last_modified |-> now,
                         verification_status |-> "PENDING"]),
       !.doc_changes = @ + 1]

\* UPDATE documents SET raw_text = ?, last_modified = ? WHERE id = ?
UpdateDocument(st, doc_id, new_text, now) ==
    [st EXCEPT
       !.docs = [k \in DOMAIN st.docs |->
                   IF k = doc_id
                   THEN [st.docs[k] EXCEPT !.raw_text = new_text,
                                           !.last_modified = now]
                   ELSE st.docs[k]],
       !.doc_changes = @ + Count(doc_id \in DOMAIN st.docs)]

\* DELETE FROM documents WHERE id = ?
DeleteDocument(st, doc_id) ==
    [st EXCEPT
       !.docs = [k \in DOMAIN st.docs \ {doc_id} |-> st.docs[k]],
       !.doc_changes = @ + Count(doc_id \in DOMAIN st.docs)]

\* f'Document {doc_id} added to system' and its siblings
Details(doc_id, what) == <<"Document", doc_id, what>>

\* log_action: INSERT INTO audit_log, commit; an exception is printed and
\* swallowed, leaving the view as it was and nothing committed.
log_action(st, doc_id, action, details, logNow, insertFails) ==
    IF insertFails THEN st
    ELSE commit([st EXCEPT !.audit =
                    Append(@, [id |-> Len(@) + 1,
                               document_id |-> doc_id,
                               action |-> action,
                               timestamp |-> logNow,
                               user |-> "SYSTEM",
                               details |-> details])])

\* show_document_details: the SELECT ... WHERE id = ? and its fetchone()
show_document_details(doc_id) ==
    IF doc_id \in DOMAIN docs
    THEN <<docs[doc_id].id, docs[doc_id].raw_text, docs[doc_id].date_added,
           docs[doc_id].last_modified, docs[doc_id].verification_status>>
    ELSE << >>

\* ---------------------------------------------------------------- actions
InitDocumentManager ==
    /\ docs = << >>
    /\ audit = << >>
    /\ diskDocs = << >>
    /\ diskAudit = << >>
    /\ doc_changes = 0
    /\ documents_tree = {}
    /\ dialogs = {}
    /\ save_btns = {}
    /\ result_text = <<"", << >> >>
    /\ faults = 0
    /\ search_tree = << >>
    /\ search_status = "idle"

\* OCRApp after __init__, no image dropped yet
IdleOCRApp ==
    /\ ocr_result_text = [message |-> "", cause |-> "", text |-> << >>]
    /\ extracted_text = [is_none |-> TRUE, value |-> << >>]
    /\ errors_shown = << >>

\* parse_document_info not applied
IdleExtract ==
    /\ parse_text = << >>
    /\ parse_info = [called |-> FALSE]

Init ==
    /\ InitDocumentManager
    /\ IdleOCRApp
    /\ image_path = [stage |-> "no file", cause |-> "", text |-> << >>]
    /\ IdleExtract

\* process_image with the Save Document button packed after the try block,
\* so also when a stage raised
process_image_ButtonAfterTry(image) ==
    /\ IF image.stage = "none"
       THEN result_text' = <<"text", image.text>>
       ELSE result_text' = <<"An error occurred: ", image.stage>>
    /\ save_btns' = save_btns \cup {image.text}
    /\ UNCHANGED <<storeVars, documents_tree, dialogs, faults,
                   searchVars, ocrVars, extractVars>>

\* DocumentManager.process_image
process_image(image) ==
    /\ IF image.stage = "none"
       THEN /\ result_text' = <<"text", image.text>>
            /\ save_btns' = save_btns \cup {image.text}
       ELSE /\ result_text' = <<"An error occurred: ", image.stage>>
            /\ UNCHANGED save_btns
    /\ UNCHANGED <<storeVars, documents_tree, dialogs, faults,
                   searchVars, ocrVars, extractVars>>

\* DocumentManager.save_document, run by a "Save Document" button
save_document(raw_text, now, logNow, insertFails, logFails) ==
    /\ raw_text \in save_btns
    /\ MaxId(docs) + 1 \in DocIds
    /\ Len(audit) < MaxAudit
    /\ ~(insertFails /\ logFails)
    /\ Raise(Count(insertFails) + Count(logFails))
    /\ IF insertFails
       THEN UNCHANGED <<storeVars, documents_tree>>
       ELSE LET next_id == MaxId(docs) + 1
                st1 == commit(InsertDocument(CurrentStore, next_id, raw_text, now))
                doc_id == next_id
                st2 == log_action(st1, doc_id, "ADD",
                                  Details(doc_id, "added to system"),
                                  logNow, logFails)
            IN  /\ SetStore(st2)
                /\ documents_tree' = DOMAIN st2.docs
    /\ UNCHANGED <<dialogs, save_btns, result_text,
                   searchVars, ocrVars, extractVars>>

\* DocumentManager.edit_selected_document up to the dialog's creation
edit_selected_document(doc_id) ==
    /\ doc_id \in documents_tree
    /\ IF doc_id \in DOMAIN docs
       THEN dialogs' = dialogs \cup {doc_id}
       ELSE UNCHANGED dialogs
    /\ UNCHANGED <<storeVars, documents_tree, save_btns, result_text, faults,
                   searchVars, ocrVars, extractVars>>

\* save_changes, the edit dialog's Save button
save_changes(doc_id, typed, now, logNow, updateFails, logFails) ==
    /\ doc_id \in dialogs
    /\ Len(audit) < MaxAudit
    /\ ~(updateFails /\ logFails)
    /\ Raise(Count(updateFails) + Count(logFails))
    /\ IF updateFails
       THEN UNCHANGED <<storeVars, documents_tree, dialogs>>
       ELSE LET new_text == strip(typed)
                st1 == UpdateDocument(CurrentStore, doc_id, new_text, now)
                st2 == log_action(st1, doc_id, "EDIT",
                                  Details(doc_id, "edited"), logNow, logFails)
                st3 == commit(st2)
            IN  /\ SetStore(st3)
                /\ documents_tree' = DOMAIN st3.docs
                /\ dialogs' = dialogs \ {doc_id}
    /\ UNCHANGED <<save_btns, result_text, searchVars, ocrVars, extractVars>>

\* the edit dialog's Cancel button (dialog.destroy)
cancel_edit(doc_id) ==
    /\ doc_id \in dialogs
    /\ dialogs' = dialogs \ {doc_id}
    /\ UNCHANGED <<storeVars, documents_tree, save_btns, result_text, faults,
                   searchVars, ocrVars, extractVars>>

\* the for loop of delete_selected_document over the selected rows, in tree
\* order; raised is TRUE when a DELETE statement raised and the loop was left
RECURSIVE delete_loop(_, _, _, _, _)
delete_loop(selection, st, logNow, deleteFailsAt, logFails) ==
    IF selection = {} THEN [st |-> st, raised |-> FALSE]
    ELSE LET doc_id == CHOOSE i \in selection : \A j \in selection : i <= j
         IN  IF doc_id = deleteFailsAt THEN [st |-> st, raised |-> TRUE]
             ELSE LET st1 == DeleteDocument(st, doc_id)
                      st2 == log_action(st1, doc_id, "DELETE",
                                        Details(doc_id, "deleted from system"),
                                        logNow[doc_id], doc_id \in logFails)
                  IN  delete_loop(selection \ {doc_id}, st2, logNow,
                                  deleteFailsAt, logFails)

\* DocumentManager.delete_selected_document, confirmed by the user.  The
\* DELETE of row deleteFailsAt raises (NoId: none does); the audit INSERT of
\* the rows of logFails, all reached before that one, raises.
delete_selected_document(selection, logNow, deleteFailsAt, logFails) ==
    /\ selection # {}
    /\ selection \subseteq documents_tree
    /\ Len(audit) + Cardinality(selection) <= MaxAudit
    /\ deleteFailsAt \in selection \cup {NoId}
    /\ logFails \subseteq {i \in selection : deleteFailsAt = NoId \/ i < deleteFailsAt}
    /\ Raise(Cardinality(logFails) + Count(deleteFailsAt # NoId))
    /\ LET r == delete_loop(selection, CurrentStore, logNow, deleteFailsAt, logFails)
       IN  IF r.raised
           THEN /\ SetStore(r.st)
                /\ UNCHANGED documents_tree
           ELSE /\ SetStore(commit(r.st))
                /\ documents_tree' = DOMAIN r.st.docs
    /\ UNCHANGED <<dialogs, save_btns, result_text,
                   searchVars, ocrVars, extractVars>>

\* ---------------------------------------------------- search and startup
\* columns of the documents table init_database creates
DocumentColumns == {"id", "raw_text", "date_added", "last_modified", "verification_status"}
\* columns the SELECT of on_search_change names
SearchColumns == {"id", "doc_type", "doc_number", "full_name", "date_added"}

\* what the user leaves in the search entry: "", " ", "AB", "jane", " Doe "
SearchTerms ==
    { << >>, <<" ">>, <<"A","B">>, <<"j","a","n","e">>, <<" ","D","o","e"," ">> }

\* column LIKE '%term%' for a term without % and _: SQLite's LIKE ignores
\* the case of ASCII letters
Like(column, term) == Contains(upper(column), upper(term))

\* fetchall() of the SELECT: the matching rows in an order ORDER BY
\* date_added DESC allows
SearchRows(d, term) ==
    LET hit == {k \in DOMAIN d : Like(d[k].doc_number, term) \/ Like(d[k].full_name, term)}
    IN  {r \in [1..Cardinality(hit) -> hit] :
            /\ \A i, j \in DOMAIN r : i # j => r[i] # r[j]
            /\ \A i, j \in DOMAIN r : i < j => d[r[i]].date_added >= d[r[j]].date_added}

\* on_search_change without the return on an empty term
on_search_change_QueriesEmptyTerm(typed) ==
    /\ IF ~(SearchColumns \subseteq DocumentColumns)
       THEN /\ search_tree' = << >>
            /\ search_status' = "raised"
       ELSE /\ search_tree' = << >>
            /\ search_status' = "listed"
    /\ UNCHANGED <<storeVars, documents_tree, dialogs, save_btns, result_text,
                   faults, ocrVars, extractVars>>

\* DocumentManager.on_search_change, the trace on search_var.  An exception
\* leaves the handler for Tk's callback wrapper, which reports it.
on_search_change(typed) ==
    LET search_term == strip(typed)
    IN  /\ IF search_term = << >>
           THEN /\ search_tree' = << >>
                /\ search_status' = "no query"
           ELSE IF ~(SearchColumns \subseteq DocumentColumns)
           THEN /\ search_tree' = << >>      \* OperationalError: no such column
                /\ search_status' = "raised"
           ELSE \E r \in SearchRows(docs, search_term) :
                   /\ search_tree' =
                        [i \in DOMAIN r |->
                            <<docs[r[i]].id, docs[r[i]].doc_type,
                              docs[r[i]].doc_number, docs[r[i]].full_name,
                              IF Contains(docs[r[i]].doc_number, search_term)
                              THEN "Number" ELSE "Name">>]
                   /\ search_status' = "listed"
        /\ UNCHANGED <<storeVars, documents_tree, dialogs, save_btns, result_text,
                       faults, ocrVars, extractVars>>

\* init_database that opens documents.db without trying to remove it
init_database_OpenOrCreate(st, removeFails) ==
    [st EXCEPT !.docs = st.diskDocs, !.audit = st.diskAudit, !.doc_changes = 0]

\* DocumentManager.init_database on the documents.db the last run left:
\* os.remove raising is ignored, and CREATE TABLE IF NOT EXISTS then finds
\* both tables in the old file
init_database(st, removeFails) ==
    IF removeFails
    THEN [st EXCEPT !.docs = st.diskDocs, !.audit = st.diskAudit, !.doc_changes = 0]
    ELSE [docs |-> << >>, audit |-> << >>, diskDocs |-> << >>, diskAudit |-> << >>,
          doc_changes |-> 0]

\* The program is closed and started again: DocumentManager.__init__
startup(removeFails) ==
    LET st == init_database(CurrentStore, removeFails)
    IN  /\ SetStore(st)
        /\ documents_tree' = DOMAIN st.docs
        /\ dialogs' = {}
        /\ save_btns' = {}
        /\ result_text' = <<"", << >> >>
        /\ search_tree' = << >>
        /\ search_status' = "idle"
        /\ UNCHANGED <<faults, ocrVars, extractVars>>

\* ------------------------------------------------------- Pytesseract.py: OCRApp
\* letters, digits, blanks, punctuation and the glyphs fix_common_errors replaces
FullAlphabet == {"a", "1", " ", "\n", "\t", ".", "|", "[", "]", "{", "}"}
NoiseAlphabet == {"a", " ", "\n", "|", "{", "."}

TextsUpTo(alphabet, n) == UNION {[1..k -> alphabet] : k \in 0..n}

\* "abc", "| |", " a  b ", "..", "{a}", "", "x\t1", "]]]"
SampleLines ==
    { <<"a","b","c">>, <<"|"," ","|">>, <<" ","a"," "," ","b"," ">>, <<".",".">>,
      <<"{","a","}">>, << >>, <<"x","\t","1">>, <<"]","]","]">> }

LineTexts ==
    {join(<<"\n">>, ls) : ls \in UNION {[1..k -> SampleLines] : k \in 1..MaxLines}}

\* what pytesseract.image_to_string returns
OcrTexts ==
    TextsUpTo(NoiseAlphabet, MaxTextLen) \cup TextsUpTo(FullAlphabet, MaxShortLen)
        \cup LineTexts

\* str(e) of what preprocess_image (cv2) and image_to_string raise
LoadError == "Failed to load image"
FilterError == "OpenCV error in cvtColor"
TesseractError == "tesseract is not installed or it's not in your PATH"
\* str(e) of the AttributeError None.strip() raises
NoneTypeError == "'NoneType' object has no attribute 'strip'"

\* An image file is what the external stack does with it: the call that
\* raises ("none": no call does) with its message, and the OCR text.
OCRImages ==
    {[stage |-> "none", cause |-> "", text |-> t] : t \in OcrTexts}
    \cup { [stage |-> "preprocess_image", cause |-> LoadError, text |-> EmptyText],
           [stage |-> "preprocess_image", cause |-> FilterError, text |-> EmptyText],
           [stage |-> "image_to_string", cause |-> TesseractError, text |-> EmptyText] }
NoImage == [stage |-> "no file", cause |-> "", text |-> EmptyText]

\* Python's None and a str, as extract_text returns them
None == [is_none |-> TRUE, value |-> EmptyText]
Str(t) == [is_none |-> FALSE, value |-> t]

\* content of the result text area
Display(message, cause, text) == [message |-> message, cause |-> cause, text |-> text]
ShowText(text) ==
    IF strip(text) # << >>
    THEN Display("Extracted Text:\n", "", text)
    ELSE Display("No text was detected in the image.", "", EmptyText)
ShowError(cause) == Display("An error occurred: ", cause, EmptyText)

\* OCRApp.extract_text: the text area it leaves, the value it returns and
\* the error boxes it shows.  Its except clause returns nothing, so None.
extract_text(image) ==
    IF image.stage = "none"
    THEN LET cleaned_text == post_process_text(image.text)
         IN  [result_text |-> ShowText(cleaned_text),
              returned |-> Str(cleaned_text),
              shown |-> << >>]
    ELSE [result_text |-> ShowError(image.cause),
          returned |-> None,
          shown |-> <<image.cause>>]

dmVars ==
    <<storeVars, documents_tree, dialogs, save_btns, result_text, faults, searchVars>>

\* OCRApp.process_image (handle_drop, browse_files)
OCRApp_process_image ==
    /\ image_path # NoImage
    /\ LET r == extract_text(image_path)
       IN  /\ extracted_text' = r.returned
           /\ IF r.returned.is_none            \* None.strip() raises
              THEN /\ ocr_result_text' = ShowError(NoneTypeError)
                   /\ errors_shown' = r.shown \o <<NoneTypeError>>
              ELSE /\ ocr_result_text' = ShowText(r.returned.value)
                   /\ errors_shown' = r.shown
    /\ image_path' = NoImage
    /\ UNCHANGED <<dmVars, extractVars>>

\* info = self.parse_document_info(text)
call_parse_document_info ==
    /\ ~parse_info.called
    /\ parse_info' = [called |-> TRUE, info |-> parse_document_info(parse_text)]
    /\ UNCHANGED <<dmVars, ocrVars, parse_text>>

Next ==
    \/ \E image \in Images : process_image(image)
    \/ \E raw_text \in save_btns, now \in Times, logNow \in Times,
          insertFails \in BOOLEAN, logFails \in BOOLEAN :
          save_document(raw_text, now, logNow, insertFails, logFails)
    \/ \E doc_id \in documents_tree : edit_selected_document(doc_id)
    \/ \E doc_id \in dialogs, typed \in EditInputs, now \in Times, logNow \in Times,
          updateFails \in BOOLEAN, logFails \in BOOLEAN :
          save_changes(doc_id, typed, now, logNow, updateFails, logFails)
    \/ \E doc_id \in dialogs : cancel_edit(doc_id)
    \/ \E selection \in SUBSET documents_tree :
          \E logNow \in [selection -> Times],
             deleteFailsAt \in selection \cup {NoId}, logFails \in SUBSET selection :
             delete_selected_document(selection, logNow, deleteFailsAt, logFails)

Spec == Init /\ [][Next]_vars

\* The program when no SQL statement raises.
NextReliable == Next /\ faults' = faults
SpecReliable == Init /\ [][NextReliable]_vars

\* The program with its Search tab, no SQL statement of the store raising
NextSearch ==
    \/ NextReliable
    \/ \E typed \in SearchTerms : on_search_change(typed)
SpecSearch == Init /\ [][NextSearch]_vars

\* The program over several runs, no SQL statement of the store raising
NextStartup ==
    \/ NextReliable
    \/ \E removeFails \in BOOLEAN : startup(removeFails)
SpecStartup == Init /\ [][NextStartup]_vars

\* OCRApp started and the user about to drop one image file
InitOCR ==
    /\ InitDocumentManager
    /\ IdleOCRApp
    /\ image_path \in OCRImages
    /\ IdleExtract

NextOCR == OCRApp_process_image
SpecOCR == InitOCR /\ [][NextOCR]_vars

\* parse_document_info about to be applied to one text
InitExtract ==
    /\ InitDocumentManager
    /\ IdleOCRApp
    /\ image_path = NoImage
    /\ parse_text \in ParseTexts
    /\ parse_info = [called |-> FALSE]

NextExtract == call_parse_document_info
SpecExtract == InitExtract /\ [][NextExtract]_vars

\* ================================================================== claims
AddEntries(log, doc_id) ==
    {i \in 1..Len(log) : log[i].action = "ADD" /\ log[i].document_id = doc_id}
DeleteEntries(log, doc_id) ==
    {i \in 1..Len(log) : log[i].action = "DELETE" /\ log[i].document_id = doc_id}

\* C1: from the empty store, after any sequence of create, update and delete
\* calls, audit_log has exactly as many rows as rows of documents were
\* written (one entry per mutation, none for a call that changed nothing).
C1_OneAuditEntryPerMutation == Len(audit) = doc_changes

\* C2: the row change and its audit entry commit together: a call in which
\* a statement raised leaves the committed tables as they were, and the
\* committed documents table never changes without the committed audit_log
\* growing.
C2_RowAndAuditEntryCommitTogether ==
    [][/\ faults' # faults => (diskDocs' = diskDocs /\ diskAudit' = diskAudit)
       /\ diskDocs' # diskDocs => Len(diskAudit') > Len(diskAudit)]_vars

\* C3: every persisted document has a non-empty raw_text.
C3_PersistedRawTextNonEmpty ==
    \A id \in DOMAIN diskDocs : diskDocs[id].raw_text # EmptyText

\* C4: save_changes for an id that is absent from documents when it runs
\* changes no row and appends no audit entry.
C4_UpdateOfAbsentIdRejected ==
    [][\A doc_id \in DocIds, typed \in EditInputs, now \in Times, logNow \in Times,
          updateFails \in BOOLEAN, logFails \in BOOLEAN :
          (/\ doc_id \notin DOMAIN docs
           /\ save_changes(doc_id, typed, now, logNow, updateFails, logFails))
          => (docs' = docs /\ audit' = audit)]_vars

\* C5: audit_log is append-only, and a delete that went through leaves no
\* row for the id while audit_log holds the ADD entry of the id and one more
\* DELETE entry of the id than before.
C5_AuditAppendOnlyAndTombstones ==
    [][/\ Len(audit') >= Len(audit)
       /\ SubSeq(audit', 1, Len(audit)) = audit
       /\ \A selection \in SUBSET DocIds, logFails \in SUBSET DocIds :
            \A logNow \in [selection -> Times] :
               delete_selected_document(selection, logNow, NoId, logFails)
               => \A id \in selection \cap DOMAIN docs :
                     /\ id \notin DOMAIN docs'
                     /\ AddEntries(audit', id) # {}
                     /\ Cardinality(DeleteEntries(audit', id))
                          = Cardinality(DeleteEntries(audit, id)) + 1]_vars

\* C6: every create assigns an id greater than every id an earlier create
\* assigned, so an id has at most one ADD entry in audit_log.
C6_IdsNeverReused ==
    [][\A k \in (Len(audit) + 1)..Len(audit') :
          audit'[k].action = "ADD"
          => \A i \in 1..(k - 1) :
                audit'[i].action = "ADD"
                => audit'[i].document_id < audit'[k].document_id]_vars

FieldNames ==
    {"doc_type", "doc_number", "full_name", "date_of_birth", "expiry_date",
     "issue_date"}

\* the columns of row hold the structured fields of info
HasFields(row, info) ==
    \A f \in FieldNames : f \in DOMAIN row /\ row[f] = info[f]

\* "ID CARD", "AB123456", "Jane Doe"
IdCardInfo ==
    [doc_type |-> <<"I","D"," ","C","A","R","D">>,
     doc_number |-> <<"A","B","1","2","3","4","5","6">>,
     full_name |-> <<"J","a","n","e"," ","D","o","e">>,
     date_of_birth |-> << >>,
     expiry_date |-> << >>,
     issue_date |-> << >>]

\* C7: saving the text t of a successful ingest adds exactly one document,
\* whose structured fields are extract(clean(t)) (for the ID card text: ID
\* CARD, AB123456, Jane Doe), and exactly one ADD entry references it.
C7_SaveStoresExtractedFields ==
    [][\A raw_text \in save_btns, now \in Times, logNow \in Times :
          (/\ post_process_text(raw_text) # EmptyText
           /\ save_document(raw_text, now, logNow, FALSE, FALSE))
          => LET new == DOMAIN docs' \ DOMAIN docs
                 info == parse_document_info(post_process_text(raw_text))
             IN  /\ Cardinality(new) = 1
                 /\ \A id \in new :
                       /\ HasFields(docs'[id], info)
                       /\ raw_text = IdCardText => HasFields(docs'[id], IdCardInfo)
                       /\ Cardinality(AddEntries(audit', id)) = 1]_vars

\* C8: right after save_document(raw_text), show_document_details of the
\* new id reads a row with that id, raw_text as submitted, status PENDING
\* and date_added = last_modified; the id is 1 for an empty table and one
\* more than the greatest id of the table otherwise.
C8_CreateThenGet ==
    [][\A raw_text \in save_btns, now \in Times, logNow \in Times,
          logFails \in BOOLEAN :
          save_document(raw_text, now, logNow, FALSE, logFails)
          => LET new == DOMAIN docs' \ DOMAIN docs
             IN  /\ Cardinality(new) = 1
                 /\ \A id \in new :
                       LET got == show_document_details(id)'
                       IN  /\ Len(got) = 5
                           /\ got[1] = id
                           /\ got[2] = raw_text
                           /\ got[3] = got[4]
                           /\ got[5] = "PENDING"
                           /\ \A k \in DOMAIN docs : k < id
                           /\ id = 1 \/ id - 1 \in DOMAIN docs]_vars

\* C8 witness: a second document was created while the first was present,
\* its text as ingested.
C8_Witness ==
    /\ DOMAIN docs = {1, 2}
    /\ docs[2].raw_text = IdCardText
    /\ docs[2].date_added = 1
    /\ documents_tree = {1, 2}

\* C9: a successful update of document doc_id changes only its raw_text and
\* last_modified; raw_text becomes the new text, last_modified is not
\* earlier than date_added and is later than it was.
C9_UpdateFrame ==
    [][\A doc_id \in DocIds, typed \in EditInputs, now \in Times, logNow \in Times :
          (/\ doc_id \in DOMAIN docs
           /\ save_changes(doc_id, typed, now, logNow, FALSE, FALSE))
          => /\ DOMAIN docs' = DOMAIN docs
             /\ \A k \in DOMAIN docs \ {doc_id} : docs'[k] = docs[k]
             /\ docs'[doc_id].id = docs[doc_id].id
             /\ docs'[doc_id].date_added = docs[doc_id].date_added
             /\ docs'[doc_id].verification_status = docs[doc_id].verification_status
             /\ docs'[doc_id].raw_text = strip(typed)
             /\ docs'[doc_id].last_modified >= docs'[doc_id].date_added
             /\ docs'[doc_id].last_modified > docs[doc_id].last_modified]_vars

\* C10: an ingest in which a stage raises changes neither table and adds
\* no Save Document button.
C10_FailedIngestCreatesNothing ==
    [][\A image \in Images :
          (image.stage # "none" /\ process_image(image))
          => UNCHANGED <<docs, audit, diskDocs, diskAudit, save_btns>>]_vars

\* C10 witness: an ingest failed after a document had been saved.
C10_Witness ==
    /\ result_text = <<"An error occurred: ", "load">>
    /\ DOMAIN docs # {}
    /\ save_btns # {}

\* C11: when preprocess_image or the OCR call raises with cause c during
\* process_image, the error reaches process_image's own handler (exactly
\* one error is reported, the one of cause c) and the text area ends with
\* the message that names c.
C11_StageErrorNamesCause ==
    [][(OCRApp_process_image /\ image_path.stage # "none")
       => /\ errors_shown' = <<image_path.cause>>
          /\ ocr_result_text' = ShowError(image_path.cause)]_vars

\* the stored documents whose doc_number or full_name contains term
SearchMatches(d, term) ==
    {k \in DOMAIN d :
        \/ "doc_number" \in DOMAIN d[k] /\ Contains(d[k].doc_number, term)
        \/ "full_name" \in DOMAIN d[k] /\ Contains(d[k].full_name, term)}

\* C12: a search with a non-empty term ends without an error and lists
\* exactly the documents whose doc_number or full_name contains the term
\* (case-sensitive), by descending date_added, each tagged "Number" when
\* the term occurs in doc_number and "Name" otherwise.
C12_SearchListsMatches ==
    [][\A typed \in SearchTerms :
          (strip(typed) # << >> /\ on_search_change(typed))
          => LET term == strip(typed)
                 hit == SearchMatches(docs, term)
                 row(i) == search_tree'[i]
             IN  /\ search_status' = "listed"
                 /\ Len(search_tree') = Cardinality(hit)
                 /\ {row(i)[1] : i \in DOMAIN search_tree'} = hit
                 /\ \A i, j \in DOMAIN search_tree' :
                       i < j => docs[row(i)[1]].date_added >= docs[row(j)[1]].date_added
                 /\ \A i \in DOMAIN search_tree' :
                       row(i)[5] = IF Contains(row(i)[3], term)
                                   THEN "Number" ELSE "Name"]_vars

\* C13: a search whose term is empty or only whitespace leaves the result
\* tree empty whatever the store holds, runs no query (so cannot raise)
\* and changes neither table.
C13_EmptySearchListsNothing ==
    [][\A typed \in SearchTerms :
          (strip(typed) = << >> /\ on_search_change(typed))
          => /\ search_tree' = << >>
             /\ search_status' = "no query"
             /\ UNCHANGED storeVars]_vars

\* C13 witness: a blank search was made while the store held a document.
C13_Witness ==
    /\ search_status = "no query"
    /\ DOMAIN docs # {}
    /\ search_tree = << >>

\* C17 as stated: every startup, whether or not removing the old file
\* succeeds, leaves the documents table and the audit_log table empty.
C17_StartupAlwaysEmpties ==
    [][\A removeFails \in BOOLEAN :
          startup(removeFails)
          => /\ docs' = << >> /\ audit' = << >>
             /\ diskDocs' = << >> /\ diskAudit' = << >>]_vars

\* C17 amended: a startup that removes the old file leaves both tables
\* empty; a startup whose removal fails opens the old file and both tables
\* hold the rows committed to it.
C17_StartupEmptiesUnlessRemovalFails ==
    [][\A removeFails \in BOOLEAN :
          startup(removeFails)
          => /\ diskDocs' = docs' /\ diskAudit' = audit'
             /\ IF removeFails
                THEN docs' = diskDocs /\ audit' = diskAudit
                ELSE docs' = << >> /\ audit' = << >>]_vars

\* C17 witness: the program was started on a file that held a document and
\* its audit entry, and the removal failed.
C17_Witness ==
    /\ doc_changes = 0
    /\ DOMAIN docs # {}
    /\ audit # << >>
    /\ save_btns = {}

\* C14: clean is idempotent: cleaning the text extract_text returned (the
\* cleaned OCR output) gives that text again.
C14_CleanIdempotent ==
    ~extracted_text.is_none
    => post_process_text(extracted_text.value) = extracted_text.value

\* C14 witness: a cleaned text of two lines in which a glyph was replaced
\* by "I" (the inputs have no "I").
C14_Witness ==
    /\ ~extracted_text.is_none
    /\ Contains(extracted_text.value, <<"I">>)
    /\ Contains(extracted_text.value, <<"\n">>)

Glyphs == {"|", "[", "]", "{", "}"}

\* the glyph table: bar and brackets read as I, braces as parentheses
Unglyph(c) ==
    CASE c \in {"|", "[", "]"} -> "I"
      [] c = "{" -> "("
      [] c = "}" -> ")"
      [] OTHER -> c

\* line without its whitespace
Squeeze(line) ==
    LET NotBlank(c) == c \notin Whitespace
    IN  SelectSeq(line, NotBlank)

\* out is raw with its glyphs replaced, up to whitespace
CleanedFormOf(out, raw) ==
    Squeeze(out) = [i \in DOMAIN Squeeze(raw) |-> Unglyph(Squeeze(raw)[i])]

\* a line clean may return
WellFormedLine(line) ==
    /\ Len(line) > 2
    /\ \E i \in DOMAIN line : isalnum(line[i])
    /\ line[1] \notin Whitespace /\ line[Len(line)] \notin Whitespace
    /\ \A i \in 1..(Len(line) - 1) :
          ~(line[i] \in Whitespace /\ line[i + 1] \in Whitespace)
    /\ \A i \in DOMAIN line : line[i] \notin Glyphs

\* C15: clean(t) has no more lines than t; its lines are the cleaned forms
\* of a subsequence of t's lines, in their order; and each line of a
\* non-empty clean(t) is longer than 2, has an alphanumeric character, no
\* leading, trailing or doubled whitespace and none of | [ ] { }.
C15_CleanKeepsOrderAndFiltersLines ==
    [][(OCRApp_process_image /\ image_path.stage = "none")
       => LET t == image_path.text
              c == extracted_text'.value
              lines == split_on(t, "\n")
              out == IF c = << >> THEN << >> ELSE split_on(c, "\n")
          IN  /\ ~extracted_text'.is_none
              /\ Len(split_on(c, "\n")) <= Len(lines)
              /\ \E f \in [DOMAIN out -> DOMAIN lines] :
                    /\ \A i, j \in DOMAIN out : i < j => f[i] < f[j]
                    /\ \A i \in DOMAIN out : CleanedFormOf(out[i], lines[f[i]])
              /\ \A i \in DOMAIN out : WellFormedLine(out[i])]_vars

\* C15 witness: of the lines " a  b ", ".." and "| |" the first and the
\* last were kept, cleaned, in their order.
C15_Witness ==
    /\ extracted_text = Str(<<"a"," ","b","\n","I"," ","I">>)
    /\ ocr_result_text = ShowText(<<"a"," ","b","\n","I"," ","I">>)

\* every character of s from i to j - 1 is of class
AllIn(s, i, j, class) == \A k \in i..(j - 1) : s[k] \in class

\* a date-shaped token D{1,2}[-/]D{1,2}[-/]D{2,4} starts at p
DateShapedAt(s, p) ==
    \E a \in 1..2, b \in 1..2, c \in 2..4 :
       /\ p + a + b + c + 1 <= Len(s)
       /\ AllIn(s, p, p + a, DigitChars)
       /\ s[p + a] \in DateSep
       /\ AllIn(s, p + a + 1, p + a + 1 + b, DigitChars)
       /\ s[p + a + b + 1] \in DateSep
       /\ AllIn(s, p + a + b + 2, p + a + b + 2 + c, DigitChars)

\* a value of the field's shape starts at p
ValueShapedAt(s, p, field) ==
    CASE field = "doc_number" -> p + 5 <= Len(s) /\ AllIn(s, p, p + 6, NumberChars)
      [] field = "full_name" -> p <= Len(s) /\ s[p] \in NameChars
      [] OTHER -> DateShapedAt(s, p)

FieldLabels(field) ==
    CASE field = "doc_number" -> NumberLabels
      [] field = "full_name" -> NameLabels
      [] field = "date_of_birth" -> DobLabels
      [] field = "expiry_date" -> ExpLabels
      [] field = "issue_date" -> IssLabels

\* somewhere in s a label of the field is followed, after any run of the
\* separators . : # and space, by a value of the field's shape
LabelPatternMatches(s, field) ==
    \E n \in DOMAIN FieldLabels(field), i \in 1..Len(s) :
       /\ StartsWith(s, i, FieldLabels(field)[n])
       /\ \E p \in (i + Len(FieldLabels(field)[n]))..Len(s) :
             /\ AllIn(s, i + Len(FieldLabels(field)[n]), p, LabelSep)
             /\ ValueShapedAt(s, p, field)

\* s has none of the labels and none of the document types
NoLabels(s) ==
    /\ \A n \in DOMAIN DocTypes : ~Contains(s, DocTypes[n])
    /\ \A field \in FieldNames \ {"doc_type"} :
          \A n \in DOMAIN FieldLabels(field) : ~Contains(s, FieldLabels(field)[n])

\* C16: parse_document_info returns a record for every text; a field
\* whose label pattern does not match the upper-cased text is the empty
\* string, and for a text without any label or document type, the empty
\* text among them, every structured field is the empty string.
C16_ExtractLeavesUnmatchedFieldsEmpty ==
    parse_info.called
    => LET info == parse_info.info
           s == upper(parse_text)
       IN  /\ DOMAIN info = FieldNames \cup {"metadata"}
           /\ (\A n \in DOMAIN DocTypes : ~Contains(s, DocTypes[n]))
                 => info.doc_type = EmptyText
           /\ \A field \in FieldNames \ {"doc_type"} :
                 ~LabelPatternMatches(s, field) => info[field] = EmptyText
           /\ NoLabels(s) => \A field \in FieldNames : info[field] = EmptyText
           /\ parse_text = EmptyText => \A field \in FieldNames : info[field] = EmptyText

\* C16 witness: on "NO AB12" the number label is there but the value is
\* too short for the pattern, and doc_number was left empty.
C16_Witness ==
    /\ parse_info.called
    /\ parse_text = <<"N","O"," ","A","B","1","2">>
    /\ parse_info.info.doc_number = EmptyText

====
